---- MODULE Spec2Model ----
(***************************************************************************)
(* Room-booking conflict/approval workflow of vine-flow.                   *)
(*                                                                         *)
(* The store is the room_bookings table with its row-level security        *)
(* policies and its constraints (supabase migrations).  The client is the  *)
(* MeetingRooms page in the browser session of one signed-in user, me: its *)
(* tabs show one of CreateBookingDialog, MyBookings and AdminApprovalView  *)
(* at a time, and a component starts from its initial state when its tab   *)
(* is selected.  Every other session is the requests it can send to the    *)
(* store (storeInsert, storeUpdate), which the store's policies and        *)
(* constraints decide whatever client sent them.                           *)
(*                                                                         *)
(* Every handler is one action; a fetch that a handler or a realtime event *)
(* starts without awaiting it is a flag that a later fetch action          *)
(* completes.                                                              *)
(*                                                                         *)
(* Times are slots 0..MaxTime of one future day, so the "not in the past"  *)
(* guards of the form and the isPast guard of the cancel button are true.  *)
(***************************************************************************)
EXTENDS Integers, Sequences, FiniteSets, TLC

MaxBookings == 2
MaxTime == 3

Users == {"u1", "u2"}
Roles == {"staff", "leader", "admin"}
\* The user_roles tables considered: the signed-in user and the other user are each
\* staff or not (leader and admin are alike in every policy and in the page)
RoleAssignments ==
    { [u1 |-> "staff", u2 |-> "staff"], [u1 |-> "staff", u2 |-> "leader"],
      [u1 |-> "leader", u2 |-> "staff"], [u1 |-> "admin", u2 |-> "leader"] }
\* The rooms offered by the booking form
Rooms == {"X"}
Times == 0 .. MaxTime
Statuses == {"pending", "approved", "rejected", "cancelled"}
Ids == 1 .. MaxBookings
\* Offsets of the browser's time zone from UTC, in slots (UTC, and two slots east)
TzOffsets == {0, 2}
NoRoom == ""
NoBooking == 0

VARIABLES
    room_bookings,       \* the table: sequence of rows, a row's id is its index
    user_roles,          \* the user_roles table
    role,                \* MeetingRooms.role
    tzOffset,            \* UTC offset of the browser
    tab,                 \* MeetingRooms: the selected tab
    form,                \* CreateBookingDialog: roomId, start, end
    conflictingBooking,  \* CreateBookingDialog: result of the last availability check
    adminBookings,       \* AdminApprovalView.bookings (ids of the cached pending rows)
    selectedBooking,     \* AdminApprovalView.selectedBooking
    conflicts,           \* AdminApprovalView.conflicts
    approvalDialogOpen,  \* AdminApprovalView.approvalDialogOpen
    adminFetch,          \* AdminApprovalView: a fetchPendingBookings is in flight
    myBookings,          \* MyBookings.bookings: cached <<id, status>> of own rows
    cancelingId,         \* MyBookings.cancelingId
    myFetch,             \* MyBookings: a loadBookings is in flight
    dialog,              \* CreateBookingDialog with all its fields (see SpecSubmit)
    fetches,             \* the queries in flight (see SpecRefresh, SpecApprove, SpecForm)
    call                 \* the last direct call of a function, with its arguments and result

vars == <<room_bookings, user_roles, role, tzOffset, tab, form, conflictingBooking,
          adminBookings, selectedBooking, conflicts, approvalDialogOpen,
          adminFetch, myBookings, cancelingId, myFetch, dialog, fetches, call>>

\* what no handler of the page writes
envVars == <<user_roles, role, tzOffset, dialog, fetches, call>>
formVars == <<form, conflictingBooking>>
adminVars == <<adminBookings, selectedBooking, conflicts, approvalDialogOpen>>
myVars == <<myBookings, cancelingId>>

-----------------------------------------------------------------------------
(* Pure functions *)

\* Mutant: the stored start is compared with <=
ClientOverlap_startInclusive(rowStart, rowEnd, candStart, candEnd) ==
    rowStart <= candEnd /\ rowEnd > candStart

\* Mutant: the stored start is compared with the candidate's start
ClientOverlap_startToStart(rowStart, rowEnd, candStart, candEnd) ==
    rowStart < candStart /\ rowEnd > candStart

\* Mutant: both comparisons are inclusive
ClientOverlap_inclusive(rowStart, rowEnd, candStart, candEnd) ==
    rowStart <= candEnd /\ rowEnd >= candStart

\* booking-utils.ts: .lt("start_time", end).gt("end_time", start)
ClientOverlap(rowStart, rowEnd, candStart, candEnd) ==
    rowStart < candEnd /\ rowEnd > candStart

\* part_002: tsrange(start_time, end_time, '[]') && tsrange(start_time, end_time, '[]')
TsRangeOverlap(s1, e1, s2, e2) ==
    s1 <= e2 /\ s2 <= e1

\* new Date(time).toISOString().  The form's strings ("2025-01-10T10:30") carry no
\* offset, and neither do the start_time and end_time the store returns (they are
\* timestamps without time zone: no_overlapping_bookings builds a tsrange from
\* them), so Date reads them as local time and toISOString gives that instant in
\* UTC; the store then compares the result with its stored values as written.
ToISOString(t) == t - tzOffset

\* getCurrentUser(): the signed-in user of the browser session
me == "u1"

\* public.has_role(auth.uid(), 'leader') OR public.has_role(auth.uid(), 'admin')
IsLeaderOrAdmin(u) == user_roles[u] = "leader" \/ user_roles[u] = "admin"

Row(room, user, s, e, st) ==
    [room_id |-> room, user_id |-> user, start_time |-> s, end_time |-> e, status |-> st]

RowIds(rows) == DOMAIN rows

-----------------------------------------------------------------------------
(* The store: constraints and row-level security of room_bookings *)

\* Mutant: the exclusion constraint is missing
no_overlapping_bookings_missing(rows) == TRUE

\* CONSTRAINT no_overlapping_bookings EXCLUDE USING gist (room_id WITH =, tsrange(..) WITH &&)
no_overlapping_bookings(rows) ==
    \A i, j \in RowIds(rows) :
        (i # j /\ rows[i].room_id = rows[j].room_id)
            => ~TsRangeOverlap(rows[i].start_time, rows[i].end_time,
                               rows[j].start_time, rows[j].end_time)

\* Mutant: the check constraint is missing
valid_booking_time_range_missing(row) == TRUE

\* CONSTRAINT valid_booking_time_range CHECK (start_time < end_time)
valid_booking_time_range(row) == row.start_time < row.end_time

\* Mutant: the insert policy tests ownership only
InsertWithCheck_ownerOnly(caller, row) == caller = row.user_id

\* FOR INSERT WITH CHECK (auth.uid() = user_id AND status = 'pending')
InsertWithCheck(caller, row) ==
    caller = row.user_id /\ row.status = "pending"

\* FOR UPDATE USING: the permissive policies are OR-ed
UpdateUsing(caller, row) ==
    \/ IsLeaderOrAdmin(caller)
    \/ (caller = row.user_id /\ row.status = "pending")

\* Mutant: WITH CHECK of the requester's policy tests ownership only
UpdateWithCheck_ownerOnly(caller, row) ==
    \/ IsLeaderOrAdmin(caller)
    \/ caller = row.user_id

\* FOR UPDATE WITH CHECK on the new row (USING stands in where none is given)
UpdateWithCheck(caller, row) ==
    \/ IsLeaderOrAdmin(caller)
    \/ (caller = row.user_id /\ row.status = "pending")

\* Error code of an INSERT, "ok" when the row is stored
InsertResult(caller, row) ==
    IF ~InsertWithCheck(caller, row) THEN "42501"
    ELSE IF ~valid_booking_time_range(row) THEN "23514"
    ELSE IF ~no_overlapping_bookings(Append(room_bookings, row)) THEN "23P01"
    ELSE "ok"

\* Error code of UPDATE room_bookings SET status = st WHERE id = id;
\* "norows" when the statement matches no row the caller may update (no error)
UpdateResult(caller, id, st) ==
    IF id \notin RowIds(room_bookings) \/ ~UpdateUsing(caller, room_bookings[id])
    THEN "norows"
    ELSE LET new == [room_bookings[id] EXCEPT !.status = st]
         IN  IF ~UpdateWithCheck(caller, new) THEN "42501"
             ELSE IF ~valid_booking_time_range(new) THEN "23514"
             ELSE IF ~no_overlapping_bookings([room_bookings EXCEPT ![id] = new])
                  THEN "23P01"
             ELSE "ok"

\* The table after the UPDATE
UpdatedTable(caller, id, st) ==
    IF UpdateResult(caller, id, st) = "ok"
    THEN [room_bookings EXCEPT ![id].status = st]
    ELSE room_bookings

\* Error code of UPDATE room_bookings SET start_time = s, end_time = e WHERE id = id
UpdateTimesResult(caller, id, s, e) ==
    IF id \notin RowIds(room_bookings) \/ ~UpdateUsing(caller, room_bookings[id])
    THEN "norows"
    ELSE LET new == [room_bookings[id] EXCEPT !.start_time = s, !.end_time = e]
         IN  IF ~UpdateWithCheck(caller, new) THEN "42501"
             ELSE IF ~valid_booking_time_range(new) THEN "23514"
             ELSE IF ~no_overlapping_bookings([room_bookings EXCEPT ![id] = new])
                  THEN "23P01"
             ELSE "ok"

\* The table after that UPDATE
UpdatedTimesTable(caller, id, s, e) ==
    IF UpdateTimesResult(caller, id, s, e) = "ok"
    THEN [room_bookings EXCEPT ![id].start_time = s, ![id].end_time = e]
    ELSE room_bookings

\* Mutant: the select policy admits every row
SelectUsing_all(caller, row) == TRUE

\* FOR SELECT USING (status = 'approved' OR own row OR leader OR admin)
SelectUsing(caller, row) ==
    \/ row.status = "approved"
    \/ caller = row.user_id
    \/ IsLeaderOrAdmin(caller)

\* postgres_changes event on room_bookings: the mounted view starts a re-fetch;
\* own is TRUE when the handler starts the re-fetch of its view itself
Notify(changed, own) ==
    /\ myFetch' = (myFetch \/ (tab = "my-bookings" /\ (changed \/ own)))
    /\ adminFetch' = (adminFetch \/ (tab = "approvals" /\ (changed \/ own)))

-----------------------------------------------------------------------------
(* booking-utils.ts *)

\* checkBookingAvailability: the rows the query returns
AvailabilityRows(caller, roomId, startTime, endTime) ==
    {i \in RowIds(room_bookings) :
        /\ SelectUsing(caller, room_bookings[i])
        /\ room_bookings[i].room_id = roomId
        /\ room_bookings[i].status = "approved"
        /\ ClientOverlap(room_bookings[i].start_time, room_bookings[i].end_time,
                         ToISOString(startTime), ToISOString(endTime))}

\* getConflictingBookings: the rows the query returns
ConflictRows(caller, roomId, startTime, endTime, excludeBookingId) ==
    {i \in RowIds(room_bookings) :
        /\ SelectUsing(caller, room_bookings[i])
        /\ room_bookings[i].room_id = roomId
        /\ i # excludeBookingId
        /\ room_bookings[i].status \in {"approved", "pending"}
        /\ ClientOverlap(room_bookings[i].start_time, room_bookings[i].end_time,
                         ToISOString(startTime), ToISOString(endTime))}

\* getConflictingBookings: [] on a query error
getConflictingBookings(caller, roomId, startTime, endTime, excludeBookingId, fail) ==
    IF fail THEN {} ELSE ConflictRows(caller, roomId, startTime, endTime, excludeBookingId)

-----------------------------------------------------------------------------
(* Initial state: the user is on the MeetingRooms page, loadRole has set the     *)
(* role to the user's row of user_roles, nothing is booked                       *)

EmptyForm == [roomId |-> NoRoom, start |-> 0, end |-> 0]

\* an input of type date or time that is empty
Unset == << >>

\* CreateBookingDialog closed: resetForm() and open = false
ClosedDialog ==
    [open |-> FALSE, title |-> "", roomId |-> NoRoom, startDate |-> Unset,
     startTime |-> Unset, endDate |-> Unset, endTime |-> Unset,
     conflictingBooking |-> NoBooking, validationError |-> "", loading |-> FALSE]

\* no function has been called directly
NoCall == [fn |-> "none"]

Init ==
    /\ room_bookings = << >>
    /\ user_roles \in RoleAssignments
    /\ role = user_roles[me]
    /\ tzOffset \in TzOffsets
    /\ tab = "schedule"
    /\ form = EmptyForm
    /\ conflictingBooking = NoBooking
    /\ adminBookings = {}
    /\ selectedBooking = NoBooking
    /\ conflicts = {}
    /\ approvalDialogOpen = FALSE
    /\ adminFetch = FALSE
    /\ myBookings = {}
    /\ cancelingId = NoBooking
    /\ myFetch = FALSE
    /\ dialog = ClosedDialog
    /\ fetches = {}
    /\ call = NoCall

-----------------------------------------------------------------------------
(* MeetingRooms *)

Tabs == {"schedule", "calendar", "rooms", "my-bookings", "approvals"}

\* the Approvals tab is rendered for role admin or leader only:
\* (role === 'admin' || role === 'leader')
TabShown(t) == t = "approvals" => (role = "admin" \/ role = "leader")

\* onValueChange of the Tabs: the old tab's component unmounts, the new one mounts
\* with its initial state and starts its fetch
selectTab(t) ==
    /\ tab # t
    /\ TabShown(t)
    /\ tab' = t
    /\ form' = EmptyForm
    /\ conflictingBooking' = NoBooking
    /\ adminBookings' = {}
    /\ selectedBooking' = NoBooking
    /\ conflicts' = {}
    /\ approvalDialogOpen' = FALSE
    /\ adminFetch' = (t = "approvals")
    /\ myBookings' = {}
    /\ cancelingId' = NoBooking
    /\ myFetch' = (t = "my-bookings")
    /\ UNCHANGED <<room_bookings, envVars>>

-----------------------------------------------------------------------------
(* CreateBookingDialog *)

\* setRoomId / setStartTime / setEndTime: the user fills in the form
SetFields(r, s, e) ==
    /\ tab = "calendar"
    /\ form # [roomId |-> r, start |-> s, end |-> e]
    /\ form' = [roomId |-> r, start |-> s, end |-> e]
    /\ UNCHANGED <<room_bookings, envVars, tab, conflictingBooking,
                   adminVars, adminFetch, myVars, myFetch>>

\* checkAvailability, run by the debounce effect; null on a query error
checkAvailability(fail) ==
    /\ tab = "calendar"
    /\ form.roomId # NoRoom
    /\ LET rows == AvailabilityRows(me, form.roomId, form.start, form.end)
       IN  IF fail \/ rows = {}
           THEN conflictingBooking' = NoBooking
           ELSE conflictingBooking' \in rows
    /\ UNCHANGED <<room_bookings, envVars, tab, form,
                   adminVars, adminFetch, myVars, myFetch>>

\* validateForm: room selected, end after start, no known conflict
validateForm ==
    /\ form.roomId # NoRoom
    /\ form.start < form.end
    /\ conflictingBooking = NoBooking

\* the row handleSubmit inserts
SubmittedRow == Row(form.roomId, me, form.start, form.end, "pending")

\* handleSubmit: validate, insert a pending row; on success reset the form
handleSubmit ==
    /\ tab = "calendar"
    /\ validateForm
    /\ IF InsertResult(me, SubmittedRow) = "ok"
       THEN /\ Len(room_bookings) < MaxBookings
            /\ room_bookings' = Append(room_bookings, SubmittedRow)
            /\ form' = EmptyForm
            /\ conflictingBooking' = NoBooking
       ELSE UNCHANGED <<room_bookings, form, conflictingBooking>>
    /\ UNCHANGED <<envVars, tab, adminVars, adminFetch, myVars, myFetch>>

-----------------------------------------------------------------------------
(* AdminApprovalView *)

\* fetchPendingBookings completes: the rows with status = 'pending'
fetchPendingBookings ==
    /\ tab = "approvals"
    /\ adminFetch
    /\ adminBookings' =
          {i \in RowIds(room_bookings) :
              SelectUsing(me, room_bookings[i]) /\ room_bookings[i].status = "pending"}
    /\ adminFetch' = FALSE
    /\ UNCHANGED <<room_bookings, envVars, tab, formVars, selectedBooking,
                   conflicts, approvalDialogOpen, myVars, myFetch>>

\* handleApproveClick: select the booking, query its conflicts, open the dialog
handleApproveClick(b, fail) ==
    /\ tab = "approvals"
    /\ b \in adminBookings
    /\ selectedBooking' = b
    /\ conflicts' =
          getConflictingBookings(me, room_bookings[b].room_id, room_bookings[b].start_time,
                                 room_bookings[b].end_time, b, fail)
    /\ approvalDialogOpen' = TRUE
    /\ UNCHANGED <<room_bookings, envVars, tab, formVars, adminBookings,
                   adminFetch, myVars, myFetch>>

\* Mutant: the Approve button ignores the conflict list
ApproveEnabled_ignoresConflicts == approvalDialogOpen

\* the dialog's Approve button: disabled={processingBookingId !== "" || conflicts.length > 0}
ApproveEnabled ==
    /\ approvalDialogOpen
    /\ conflicts = {}

\* if (error) throw error: an update that matches no row reports no error
NoError(res) == res \in {"ok", "norows"}

\* the columns handleApprove's update writes: .update({ status: "approved" })
ApproveColumns == {"status"}

\* handleApprove: update status to approved; on no error close the dialog and re-fetch
handleApprove ==
    /\ tab = "approvals"
    /\ ApproveEnabled
    /\ selectedBooking # NoBooking
    /\ LET res == UpdateResult(me, selectedBooking, "approved")
       IN  /\ room_bookings' = UpdatedTable(me, selectedBooking, "approved")
           /\ IF NoError(res)
              THEN /\ approvalDialogOpen' = FALSE
                   /\ selectedBooking' = NoBooking
                   /\ conflicts' = {}
                   /\ Notify(res = "ok", TRUE)
              ELSE UNCHANGED <<approvalDialogOpen, selectedBooking, conflicts,
                               myFetch, adminFetch>>
    /\ UNCHANGED <<envVars, tab, formVars, adminBookings, myVars>>

\* the dialog's Cancel button and onOpenChange: setApprovalDialogOpen(false)
closeApprovalDialog ==
    /\ approvalDialogOpen
    /\ approvalDialogOpen' = FALSE
    /\ UNCHANGED <<room_bookings, envVars, tab, formVars, adminBookings,
                   selectedBooking, conflicts, adminFetch, myVars, myFetch>>

\* Mutant: the reject is sent only while no conflicts are listed
handleReject_gated(b) ==
    /\ tab = "approvals"
    /\ b \in adminBookings
    /\ conflicts = {}
    /\ room_bookings' = UpdatedTable(me, b, "rejected")
    /\ Notify(TRUE, TRUE)
    /\ UNCHANGED <<envVars, tab, formVars, adminVars, myVars>>

\* handleReject: update status to rejected; on no error re-fetch
handleReject(b) ==
    /\ tab = "approvals"
    /\ b \in adminBookings
    /\ LET res == UpdateResult(me, b, "rejected")
       IN  /\ room_bookings' = UpdatedTable(me, b, "rejected")
           /\ IF NoError(res)
              THEN Notify(res = "ok", TRUE)
              ELSE UNCHANGED <<myFetch, adminFetch>>
    /\ UNCHANGED <<envVars, tab, formVars, adminVars, myVars>>

-----------------------------------------------------------------------------
(* MyBookings *)

\* loadBookings completes: the user's own rows
loadBookings ==
    /\ tab = "my-bookings"
    /\ myFetch
    /\ myBookings' =
          {<<i, room_bookings[i].status>> : i \in
              {j \in RowIds(room_bookings) :
                  SelectUsing(me, room_bookings[j]) /\ room_bookings[j].user_id = me}}
    /\ myFetch' = FALSE
    /\ UNCHANGED <<room_bookings, envVars, tab, formVars, adminVars,
                   adminFetch, cancelingId>>

\* the row's cancel button, shown when booking.status !== 'cancelled'
CancelShown(b) ==
    \E st \in Statuses \ {"cancelled"} : <<b, st>> \in myBookings

\* onClick of the cancel button: setCancelingId(booking.id)
setCancelingId(b) ==
    /\ CancelShown(b)
    /\ cancelingId # b
    /\ cancelingId' = b
    /\ UNCHANGED <<room_bookings, envVars, tab, formVars, adminVars,
                   adminFetch, myBookings, myFetch>>

\* "Keep Booking": onOpenChange sets cancelingId to null
keepBooking ==
    /\ cancelingId # NoBooking
    /\ cancelingId' = NoBooking
    /\ UNCHANGED <<room_bookings, envVars, tab, formVars, adminVars,
                   adminFetch, myBookings, myFetch>>

\* the description of the toast handleCancel shows for the update's result
CancelToast(res) ==
    IF NoError(res) THEN "Booking cancelled successfully" ELSE "Failed to cancel booking"

\* handleCancel: update status to cancelled; on no error close the dialog and re-fetch
handleCancel ==
    /\ cancelingId # NoBooking
    /\ LET res == UpdateResult(me, cancelingId, "cancelled")
       IN  /\ room_bookings' = UpdatedTable(me, cancelingId, "cancelled")
           /\ IF NoError(res)
              THEN /\ cancelingId' = NoBooking
                   /\ Notify(res = "ok", TRUE)
              ELSE UNCHANGED <<cancelingId, myFetch, adminFetch>>
    /\ UNCHANGED <<envVars, tab, formVars, adminVars, myBookings>>

-----------------------------------------------------------------------------
(* Requests the other sessions send to the store *)

\* INSERT INTO room_bookings, as caller
storeInsert(caller, row) ==
    /\ InsertResult(caller, row) = "ok"
    /\ Len(room_bookings) < MaxBookings
    /\ room_bookings' = Append(room_bookings, row)
    /\ Notify(TRUE, FALSE)
    /\ UNCHANGED <<envVars, tab, formVars, adminVars, myVars>>

\* UPDATE room_bookings SET status = st WHERE id = id, as caller
storeUpdate(caller, id, st) ==
    /\ UpdateResult(caller, id, st) = "ok"
    /\ room_bookings[id].status # st
    /\ room_bookings' = UpdatedTable(caller, id, st)
    /\ Notify(TRUE, FALSE)
    /\ UNCHANGED <<envVars, tab, formVars, adminVars, myVars>>

\* UPDATE room_bookings SET start_time = s, end_time = e WHERE id = id, as caller
storeUpdateTimes(caller, id, s, e) ==
    /\ UpdateTimesResult(caller, id, s, e) = "ok"
    /\ <<room_bookings[id].start_time, room_bookings[id].end_time>> # <<s, e>>
    /\ room_bookings' = UpdatedTimesTable(caller, id, s, e)
    /\ Notify(TRUE, FALSE)
    /\ UNCHANGED <<envVars, tab, formVars, adminVars, myVars>>

-----------------------------------------------------------------------------

Next ==
    \/ \E t \in Tabs : selectTab(t)
    \/ \E r \in Rooms, s \in Times, e \in Times : SetFields(r, s, e)
    \/ \E fail \in BOOLEAN : checkAvailability(fail)
    \/ handleSubmit
    \/ fetchPendingBookings
    \/ \E b \in Ids, fail \in BOOLEAN : handleApproveClick(b, fail)
    \/ handleApprove
    \/ closeApprovalDialog
    \/ \E b \in Ids : handleReject(b)
    \/ loadBookings
    \/ \E b \in Ids : setCancelingId(b)
    \/ keepBooking
    \/ handleCancel
    \/ \E u \in Users, r \in Rooms, v \in Users, s \in Times, e \in Times, st \in Statuses :
          storeInsert(u, Row(r, v, s, e, st))
    \/ \E u \in Users, b \in Ids, st \in Statuses : storeUpdate(u, b, st)

Spec == Init /\ [][Next]_vars

-----------------------------------------------------------------------------
(* The store on its own: the inserts and updates any client can send, those of   *)
(* a booking's times included                                                    *)

NextStore ==
    \/ \E u \in Users, r \in Rooms, v \in Users, s \in Times, e \in Times, st \in Statuses :
          storeInsert(u, Row(r, v, s, e, st))
    \/ \E u \in Users, b \in Ids, st \in Statuses : storeUpdate(u, b, st)
    \/ \E u \in Users, b \in Ids, s \in Times, e \in Times : storeUpdateTimes(u, b, s, e)

SpecStore == Init /\ [][NextStore]_vars

-----------------------------------------------------------------------------
(* The overlap test on its own: a stored interval against a candidate interval *)

\* everything but call
pageVars == <<room_bookings, user_roles, role, tzOffset, tab, form, conflictingBooking,
              adminBookings, selectedBooking, conflicts, approvalDialogOpen,
              adminFetch, myBookings, cancelingId, myFetch, dialog, fetches>>

Interval(s, e) == [start |-> s, end |-> e]

\* start_time < end_time
ValidInterval(a) == a.start < a.end

\* the filter .lt("start_time", cand.end).gt("end_time", cand.start) on a row with
\* interval stored
overlap(stored, cand) ==
    /\ call' = [fn |-> "overlap", stored |-> stored, cand |-> cand,
                result |-> ClientOverlap(stored.start, stored.end, cand.start, cand.end)]
    /\ UNCHANGED pageVars

NextOverlap ==
    \E s1 \in Times, e1 \in Times, s2 \in Times, e2 \in Times :
        overlap(Interval(s1, e1), Interval(s2, e2))

SpecOverlap == Init /\ [][NextOverlap]_vars

-----------------------------------------------------------------------------
(* booking-utils.ts called directly, on any table the store can hold *)

\* the rows a request can name
AllRows ==
    {Row(r, u, s, e, st) : r \in Rooms, u \in Users, s \in Times, e \in Times,
                           st \in Statuses}

\* the rows that pass valid_booking_time_range
ValidRows == {row \in AllRows : valid_booking_time_range(row)}

\* the tables of at most MaxBookings rows that satisfy the constraints; a row
\* leaves pending only by the update of a leader or admin
Tables(roles) ==
    {t \in UNION {[1 .. n -> ValidRows] : n \in 0 .. MaxBookings} :
        /\ no_overlapping_bookings(t)
        /\ (\A u \in Users : roles[u] = "staff")
              => \A i \in RowIds(t) : t[i].status = "pending"}

InitQuery ==
    /\ user_roles \in RoleAssignments
    /\ role = user_roles[me]
    /\ room_bookings \in Tables(user_roles)
    /\ tzOffset \in TzOffsets
    /\ tab = "schedule"
    /\ form = EmptyForm
    /\ conflictingBooking = NoBooking
    /\ adminBookings = {}
    /\ selectedBooking = NoBooking
    /\ conflicts = {}
    /\ approvalDialogOpen = FALSE
    /\ adminFetch = FALSE
    /\ myBookings = {}
    /\ cancelingId = NoBooking
    /\ myFetch = FALSE
    /\ dialog = ClosedDialog
    /\ fetches = {}
    /\ call = NoCall

\* the orders in which the store can return the rows of a query without ORDER BY
Orders(rows) ==
    {list \in [1 .. Cardinality(rows) -> rows] :
        \A i \in rows : \E k \in 1 .. Cardinality(rows) : list[k] = i}

\* checkBookingAvailability(roomId, startTime, endTime): data[0] of the rows
\* returned, null when there are none or the query fails
checkBookingAvailability(roomId, startTime, endTime, fail) ==
    /\ LET rows == AvailabilityRows(me, roomId, startTime, endTime)
       IN  \E data \in Orders(rows) :
              call' = [fn |-> "checkBookingAvailability", roomId |-> roomId,
                       startTime |-> startTime, endTime |-> endTime, fail |-> fail,
                       result |-> IF fail \/ rows = {} THEN NoBooking ELSE data[1]]
    /\ UNCHANGED pageVars

\* getConflictingBookings(roomId, startTime, endTime, excludeBookingId): the rows
\* returned, in the order returned; [] when the query fails
callGetConflictingBookings(roomId, startTime, endTime, excludeBookingId, fail) ==
    /\ \E data \in Orders(getConflictingBookings(me, roomId, startTime, endTime,
                                                 excludeBookingId, fail)) :
          call' = [fn |-> "getConflictingBookings", roomId |-> roomId,
                   startTime |-> startTime, endTime |-> endTime,
                   excludeBookingId |-> excludeBookingId, fail |-> fail,
                   result |-> data]
    /\ UNCHANGED pageVars

NextQuery ==
    \/ \E r \in Rooms, s \in Times, e \in Times, fail \in BOOLEAN :
          checkBookingAvailability(r, s, e, fail)
    \/ \E r \in Rooms, s \in Times, e \in Times, x \in {NoBooking} \cup Ids,
          fail \in BOOLEAN :
          callGetConflictingBookings(r, s, e, x, fail)

SpecQuery == InitQuery /\ [][NextQuery]_vars

-----------------------------------------------------------------------------
(* CreateBookingDialog with all its fields: validateForm and handleSubmit.       *)
(* Dates are days 0..MaxDay of SlotsPerDay slots each; a date-time is counted in *)
(* slots of local time from the start of day 0.                                  *)

SlotsPerDay == 3
MaxDay == 1
Days == 0 .. MaxDay
DaySlots == 0 .. SlotsPerDay - 1
\* the day the browser's clock shows
Today == MaxDay
Titles == {"", " ", "Standup"}

\* title.trim()
Trim(title) == IF title = " " THEN "" ELSE title

\* the values of an input of type date or time
Field(values) == {Unset} \cup {<<v>> : v \in values}

\* new Date(`${date}T${time}`): a date-time string without offset is local time
LocalDateTime(date, time) == date * SlotsPerDay + time

\* new Date(date): a date-only string is midnight UTC, which is tzOffset slots
\* into the local day
DateOnly(date) == date * SlotsPerDay + tzOffset

\* new Date(now.getFullYear(), now.getMonth(), now.getDate()): local midnight
StartOfDay(now) == (now \div SlotsPerDay) * SlotsPerDay

\* validateForm: the message it sets, "" when it returns true
ValidationError(d, now) ==
    IF Trim(d.title) = "" THEN "Meeting title is required"
    ELSE IF d.roomId = NoRoom THEN "Please select a room"
    ELSE IF d.startDate = Unset \/ d.startTime = Unset
         THEN "Start date and time are required"
    ELSE IF d.endDate = Unset \/ d.endTime = Unset
         THEN "End date and time are required"
    ELSE LET startDateTime == LocalDateTime(d.startDate[1], d.startTime[1])
             endDateTime == LocalDateTime(d.endDate[1], d.endTime[1])
             startOfToday == StartOfDay(now)
             startOfSelectedDay == DateOnly(d.startDate[1])
         IN  IF startDateTime >= endDateTime THEN "End time must be after start time"
             ELSE IF startOfSelectedDay < startOfToday THEN "Cannot book for past dates"
             ELSE IF startOfSelectedDay = startOfToday /\ startDateTime < now
                  THEN "Cannot book for past times today"
             ELSE IF d.conflictingBooking # NoBooking THEN "Room already booked"
             ELSE ""

\* PostgreSQL's message for an exclusion_violation:
\* conflicting key value violates exclusion constraint "no_overlapping_bookings"
Message23P01 ==
    <<"c", "o", "n", "f", "l", "i", "c", "t", "i", "n", "g", " ", "k", "e", "y", " ",
      "v", "a", "l", "u", "e", " ", "v", "i", "o", "l", "a", "t", "e", "s", " ", "e",
      "x", "c", "l", "u", "s", "i", "o", "n", " ", "c", "o", "n", "s", "t", "r", "a",
      "i", "n", "t", " ", "\"", "n", "o", "_", "o", "v", "e", "r", "l", "a", "p", "p",
      "i", "n", "g", "_", "b", "o", "o", "k", "i", "n", "g", "s", "\"">>

\* PostgreSQL's message for a check_violation:
\* new row for relation "room_bookings" violates check constraint "valid_booking_time_range"
Message23514 ==
    <<"n", "e", "w", " ", "r", "o", "w", " ", "f", "o", "r", " ", "r", "e", "l", "a",
      "t", "i", "o", "n", " ", "\"", "r", "o", "o", "m", "_", "b", "o", "o", "k", "i",
      "n", "g", "s", "\"", " ", "v", "i", "o", "l", "a", "t", "e", "s", " ", "c", "h",
      "e", "c", "k", " ", "c", "o", "n", "s", "t", "r", "a", "i", "n", "t", " ", "\"",
      "v", "a", "l", "i", "d", "_", "b", "o", "o", "k", "i", "n", "g", "_", "t", "i",
      "m", "e", "_", "r", "a", "n", "g", "e", "\"">>

\* PostgreSQL's message for a row-level security violation:
\* new row violates row-level security policy for table "room_bookings"
Message42501 ==
    <<"n", "e", "w", " ", "r", "o", "w", " ", "v", "i", "o", "l", "a", "t", "e", "s",
      " ", "r", "o", "w", "-", "l", "e", "v", "e", "l", " ", "s", "e", "c", "u", "r",
      "i", "t", "y", " ", "p", "o", "l", "i", "c", "y", " ", "f", "o", "r", " ", "t",
      "a", "b", "l", "e", " ", "\"", "r", "o", "o", "m", "_", "b", "o", "o", "k", "i",
      "n", "g", "s", "\"">>

\* the message of the error supabase-js returns when the request does not reach the store:
\* TypeError: Failed to fetch
MessageFetch ==
    <<"T", "y", "p", "e", "E", "r", "r", "o", "r", ":", " ", "F", "a", "i", "l", "e",
      "d", " ", "t", "o", " ", "f", "e", "t", "c", "h">>

Overlapping == <<"o", "v", "e", "r", "l", "a", "p", "p", "i", "n", "g">>
Conflict == <<"c", "o", "n", "f", "l", "i", "c", "t">>

\* message.includes(pattern)
Includes(message, pattern) ==
    \E k \in 1 .. Len(message) - Len(pattern) + 1 :
        SubSeq(message, k, k + Len(pattern) - 1) = pattern

\* const { error } = await supabase.from('room_bookings').insert(...): no error
NullError == [code |-> "null", message |-> << >>]

\* the error of an insert the store refuses with code
StoreError(code) ==
    [code |-> code,
     message |-> CASE code = "23P01" -> Message23P01
                   [] code = "23514" -> Message23514
                   [] code = "42501" -> Message42501]

\* the error of an insert that does not reach the store
FetchError == [code |-> "", message |-> MessageFetch]

\* what the insert of row returns to the dialog
InsertResponse(row, netFail) ==
    IF netFail THEN FetchError
    ELSE IF InsertResult(me, row) = "ok" THEN NullError
    ELSE StoreError(InsertResult(me, row))

\* Mutant: every insert error is taken for a conflict
IsConflictError_any(error) == TRUE

\* errorMsg.includes('overlapping') || errorMsg.includes('conflict') || errorCode === '23P01'
IsConflictError(error) ==
    \/ Includes(error.message, Overlapping)
    \/ Includes(error.message, Conflict)
    \/ error.code = "23P01"

\* the earlier version of the dialog:
\* error.message.includes("overlapping") || error.message.includes("conflict")
IsConflictErrorByMessage(error) ==
    \/ Includes(error.message, Overlapping)
    \/ Includes(error.message, Conflict)

\* Mutant: the form is reset and closed after a refused insert
AfterInsertError_reset(d) == ClosedDialog

\* the dialog after the insert returned an error: validateForm has cleared the
\* validation message, the error branch returns, finally sets loading to false
AfterInsertError(d) == [d EXCEPT !.validationError = "", !.loading = FALSE]

\* handleSubmit with the clock at now: validate; insert a pending row; toast the
\* outcome; on success close and reset the dialog
CreateBookingDialog_handleSubmit(now, netFail) ==
    /\ dialog.open
    /\ LET msg == ValidationError(dialog, now)
       IN  IF msg # ""
           THEN /\ dialog' = [dialog EXCEPT !.validationError = msg]
                /\ call' = [fn |-> "handleSubmit", dialog |-> dialog, now |-> now,
                            inserted |-> FALSE, created |-> FALSE, error |-> NullError,
                            toast |-> ""]
                /\ UNCHANGED room_bookings
           ELSE LET row == Row(dialog.roomId, me,
                               LocalDateTime(dialog.startDate[1], dialog.startTime[1]),
                               LocalDateTime(dialog.endDate[1], dialog.endTime[1]),
                               "pending")
                    error == InsertResponse(row, netFail)
                IN  IF error = NullError
                    THEN /\ Len(room_bookings) < MaxBookings
                         /\ room_bookings' = Append(room_bookings, row)
                         /\ dialog' = ClosedDialog
                         /\ call' = [fn |-> "handleSubmit", dialog |-> dialog,
                                     now |-> now, inserted |-> TRUE, created |-> TRUE,
                                     error |-> error, toast |-> "Success"]
                    ELSE /\ UNCHANGED room_bookings
                         /\ dialog' = AfterInsertError(dialog)
                         /\ call' = [fn |-> "handleSubmit", dialog |-> dialog,
                                     now |-> now, inserted |-> TRUE, created |-> FALSE,
                                     error |-> error,
                                     toast |-> IF IsConflictError(error)
                                               THEN "Booking Conflict" ELSE "Error"]
    /\ UNCHANGED <<user_roles, role, tzOffset, tab, form, conflictingBooking, adminBookings,
                   selectedBooking, conflicts, approvalDialogOpen, adminFetch,
                   myBookings, cancelingId, myFetch, fetches>>

\* the tables the dialog is submitted against: empty, or one booking of today
SubmitTables ==
    {<< >>} \cup
    {<<row>> : row \in
        {r \in {Row(room, "u2", LocalDateTime(Today, s), LocalDateTime(Today, e), st) :
                    room \in Rooms, s \in DaySlots, e \in DaySlots,
                    st \in {"pending", "approved"}} :
            valid_booking_time_range(r)}}

\* the dialog is open and filled in, with the result of its last availability check
InitSubmit ==
    /\ user_roles = [u1 |-> "staff", u2 |-> "leader"]
    /\ role = user_roles[me]
    /\ room_bookings \in SubmitTables
    /\ tzOffset \in TzOffsets
    /\ tab = "calendar"
    /\ form = EmptyForm
    /\ conflictingBooking = NoBooking
    /\ adminBookings = {}
    /\ selectedBooking = NoBooking
    /\ conflicts = {}
    /\ approvalDialogOpen = FALSE
    /\ adminFetch = FALSE
    /\ myBookings = {}
    /\ cancelingId = NoBooking
    /\ myFetch = FALSE
    /\ \E t \in Titles, r \in {NoRoom} \cup Rooms,
          sd \in Field(Days), st \in Field(DaySlots),
          ed \in Field(Days), et \in Field(DaySlots),
          c \in {NoBooking} \cup {i \in RowIds(room_bookings) :
                                     room_bookings[i].status = "approved"} :
          dialog = [open |-> TRUE, title |-> t, roomId |-> r, startDate |-> sd,
                    startTime |-> st, endDate |-> ed, endTime |-> et,
                    conflictingBooking |-> c, validationError |-> "", loading |-> FALSE]
    /\ fetches = {}
    /\ call = NoCall

NextSubmit ==
    \E n \in DaySlots, netFail \in BOOLEAN :
        CreateBookingDialog_handleSubmit(LocalDateTime(Today, n), netFail)

SpecSubmit == InitSubmit /\ [][NextSubmit]_vars

-----------------------------------------------------------------------------
(* The list of a mounted view and its re-fetches.  MyBookings and                *)
(* AdminApprovalView run their list query on mount and on every postgres_changes *)
(* event of room_bookings; a query is a request that reaches the store some time *)
(* after it is sent and whose answer reaches the view some time after that, and  *)
(* nothing orders the answers of two requests.                                   *)

MaxFetches == 2

\* the tabs whose component keeps a list of bookings
Views == {"my-bookings", "approvals"}

\* a list query that has not reached the store yet
Sent == [state |-> "sent", error |-> FALSE, data |-> {}]

\* a list query the store has answered: { data, error }
Answer(error, data) == [state |-> "answered", error |-> error, data |-> data]

\* the rows the list query of the mounted view selects:
\* .eq('user_id', user.id) in MyBookings, .eq("status", "pending") in AdminApprovalView
ViewRows ==
    IF tab = "my-bookings"
    THEN {<<i, room_bookings[i].status>> : i \in
            {j \in RowIds(room_bookings) :
                SelectUsing(me, room_bookings[j]) /\ room_bookings[j].user_id = me}}
    ELSE {i \in RowIds(room_bookings) :
            SelectUsing(me, room_bookings[i]) /\ room_bookings[i].status = "pending"}

\* the list the mounted view shows: bookings of MyBookings or of AdminApprovalView
Cache == IF tab = "my-bookings" THEN myBookings ELSE adminBookings

\* the subscription's callback: loadBookings() or fetchPendingBookings() is called
\* and its query is sent
onChange ==
    /\ Sent \in fetches \/ Cardinality(fetches) < MaxFetches
    /\ fetches' = fetches \cup {Sent}

\* an INSERT of some client commits; the view receives the event
commitInsert(caller, row) ==
    /\ InsertResult(caller, row) = "ok"
    /\ Len(room_bookings) < MaxBookings
    /\ room_bookings' = Append(room_bookings, row)
    /\ onChange
    /\ UNCHANGED <<user_roles, role, tzOffset, tab, form, conflictingBooking, adminVars,
                   adminFetch, myVars, myFetch, dialog, call>>

\* an UPDATE of a row's status by some client commits; the view receives the event
commitUpdate(caller, id, st) ==
    /\ UpdateResult(caller, id, st) = "ok"
    /\ room_bookings[id].status # st
    /\ room_bookings' = UpdatedTable(caller, id, st)
    /\ onChange
    /\ UNCHANGED <<user_roles, role, tzOffset, tab, form, conflictingBooking, adminVars,
                   adminFetch, myVars, myFetch, dialog, call>>

\* a list query reaches the store and is answered from the table as it is then
executeFetch(fail) ==
    /\ Sent \in fetches
    /\ fetches' = (fetches \ {Sent}) \cup {Answer(fail, IF fail THEN {} ELSE ViewRows)}
    /\ UNCHANGED <<room_bookings, user_roles, role, tzOffset, tab, form, conflictingBooking,
                   adminVars, adminFetch, myVars, myFetch, dialog, call>>

\* the answer f reaches the view: if (error) throw error; setBookings(data)
completeFetch(f) ==
    /\ f \in fetches
    /\ f.state = "answered"
    /\ fetches' = fetches \ {f}
    /\ IF tab = "my-bookings"
       THEN /\ myBookings' = IF f.error THEN myBookings ELSE f.data
            /\ UNCHANGED adminBookings
       ELSE /\ adminBookings' = IF f.error THEN adminBookings ELSE f.data
            /\ UNCHANGED myBookings
    /\ call' = [fn |-> "fetch", error |-> f.error]
    /\ UNCHANGED <<room_bookings, user_roles, role, tzOffset, tab, form, conflictingBooking,
                   selectedBooking, conflicts, approvalDialogOpen, adminFetch,
                   cancelingId, myFetch, dialog>>

\* the view has just been mounted: its useEffect has sent the first list query
InitRefresh ==
    /\ user_roles \in RoleAssignments
    /\ role = user_roles[me]
    /\ room_bookings = << >>
    /\ tzOffset = 0
    /\ tab \in {t \in Views : TabShown(t)}
    /\ form = EmptyForm
    /\ conflictingBooking = NoBooking
    /\ adminBookings = {}
    /\ selectedBooking = NoBooking
    /\ conflicts = {}
    /\ approvalDialogOpen = FALSE
    /\ adminFetch = FALSE
    /\ myBookings = {}
    /\ cancelingId = NoBooking
    /\ myFetch = FALSE
    /\ dialog = ClosedDialog
    /\ fetches = {Sent}
    /\ call = NoCall

NextRefresh ==
    \/ \E u \in Users, row \in AllRows : commitInsert(u, row)
    \/ \E u \in Users, b \in Ids, st \in Statuses : commitUpdate(u, b, st)
    \/ \E fail \in BOOLEAN : executeFetch(fail)
    \/ \E f \in fetches : completeFetch(f)

SpecRefresh == InitRefresh /\ [][NextRefresh]_vars

-----------------------------------------------------------------------------
(* AdminApprovalView with handleApproveClick in its steps: the click selects the *)
(* booking and sends the conflict query; the handler resumes when the answer     *)
(* arrives, which can be after another card's Approve has been clicked.          *)

\* the conflict query of handleApproveClick(b) on its way to the store
ConflictQuery(b) == [booking |-> b, state |-> "sent", data |-> {}]

\* the tables the view is opened on: pending bookings of the other user
ApproveTables(roles) ==
    {t \in Tables(roles) :
        \A i \in RowIds(t) : t[i].status = "pending" /\ t[i].user_id # me}

\* handleApproveClick up to its await: setSelectedBooking(booking), query sent;
\* the cards are behind the dialog while it is open
approveClickStart(b) ==
    /\ tab = "approvals"
    /\ b \in adminBookings
    /\ ~approvalDialogOpen
    /\ ConflictQuery(b) \in fetches \/ Cardinality(fetches) < MaxFetches
    /\ selectedBooking' = b
    /\ fetches' = fetches \cup {ConflictQuery(b)}
    /\ UNCHANGED <<room_bookings, user_roles, role, tzOffset, tab, formVars, adminBookings,
                   conflicts, approvalDialogOpen, adminFetch, myVars, myFetch,
                   dialog, call>>

\* getConflictingBookings of the query q runs at the store
conflictsAnswered(q, fail) ==
    /\ q \in fetches
    /\ q.state = "sent"
    /\ q.booking \in RowIds(room_bookings)
    /\ fetches' = (fetches \ {q}) \cup
          {[q EXCEPT !.state = "answered",
                     !.data = getConflictingBookings(me,
                                  room_bookings[q.booking].room_id,
                                  room_bookings[q.booking].start_time,
                                  room_bookings[q.booking].end_time, q.booking, fail)]}
    /\ UNCHANGED <<room_bookings, user_roles, role, tzOffset, tab, formVars, adminVars,
                   adminFetch, myVars, myFetch, dialog, call>>

\* handleApproveClick after its await: setConflicts, setApprovalDialogOpen(true)
approveClickResume(q) ==
    /\ q \in fetches
    /\ q.state = "answered"
    /\ fetches' = fetches \ {q}
    /\ conflicts' = q.data
    /\ approvalDialogOpen' = TRUE
    /\ call' = [fn |-> "handleApproveClick", booking |-> q.booking]
    /\ UNCHANGED <<room_bookings, user_roles, role, tzOffset, tab, formVars, adminBookings,
                   selectedBooking, adminFetch, myVars, myFetch, dialog>>

\* a leader has opened the Approvals tab and the list of pending bookings is loaded
InitApprove ==
    /\ user_roles = [u1 |-> "leader", u2 |-> "staff"]
    /\ role = user_roles[me]
    /\ room_bookings \in ApproveTables(user_roles)
    /\ tzOffset \in TzOffsets
    /\ tab = "approvals"
    /\ form = EmptyForm
    /\ conflictingBooking = NoBooking
    /\ adminBookings = RowIds(room_bookings)
    /\ selectedBooking = NoBooking
    /\ conflicts = {}
    /\ approvalDialogOpen = FALSE
    /\ adminFetch = FALSE
    /\ myBookings = {}
    /\ cancelingId = NoBooking
    /\ myFetch = FALSE
    /\ dialog = ClosedDialog
    /\ fetches = {}
    /\ call = NoCall

NextApprove ==
    \/ \E b \in Ids : approveClickStart(b)
    \/ \E q \in fetches, fail \in BOOLEAN : conflictsAnswered(q, fail)
    \/ \E q \in fetches : approveClickResume(q)
    \/ closeApprovalDialog
    \/ handleApprove
    \/ fetchPendingBookings

SpecApprove == InitApprove /\ [][NextApprove]_vars

-----------------------------------------------------------------------------
(* CreateBookingDialog with the debounced availability check in its steps: a     *)
(* change of a field restarts the 500 ms timer; when the timer fires,            *)
(* checkAvailability sends its query for the values of that moment, and          *)
(* setConflictingBooking runs when the answer arrives.  The submit button does   *)
(* not wait for either.                                                          *)

\* the debounce timer of the effect on [roomId, startDate, startTime, endDate, endTime]
Timer == [state |-> "timer", form |-> EmptyForm, data |-> NoBooking]

\* the availability query of checkAvailability for the form values f
AvailabilityQuery(f) == [state |-> "sent", form |-> f, data |-> NoBooking]

\* the user changes a field: the effect clears the old timer and sets a new one
setFields(r, s, e) ==
    /\ tab = "calendar"
    /\ form # [roomId |-> r, start |-> s, end |-> e]
    /\ form' = [roomId |-> r, start |-> s, end |-> e]
    /\ fetches' = fetches \cup {Timer}
    /\ UNCHANGED <<room_bookings, user_roles, role, tzOffset, tab, conflictingBooking,
                   adminVars, adminFetch, myVars, myFetch, dialog, call>>

\* the timer fires: checkAvailability(roomId, startDate, startTime) up to its await
debounceTimer ==
    /\ Timer \in fetches
    /\ IF form.roomId = NoRoom
       THEN /\ conflictingBooking' = NoBooking
            /\ fetches' = fetches \ {Timer}
            /\ call' = [fn |-> "checkAvailability", form |-> form]
       ELSE /\ AvailabilityQuery(form) \in fetches \/ Cardinality(fetches) <= MaxFetches
            /\ fetches' = (fetches \ {Timer}) \cup {AvailabilityQuery(form)}
            /\ UNCHANGED <<conflictingBooking, call>>
    /\ UNCHANGED <<room_bookings, user_roles, role, tzOffset, tab, form, adminVars,
                   adminFetch, myVars, myFetch, dialog>>

\* checkBookingAvailability of the query q runs at the store: data[0], or null
availabilityAnswered(q, fail) ==
    /\ q \in fetches
    /\ q.state = "sent"
    /\ LET rows == AvailabilityRows(me, q.form.roomId, q.form.start, q.form.end)
       IN  \E c \in (IF fail \/ rows = {} THEN {NoBooking} ELSE rows) :
              fetches' = (fetches \ {q}) \cup
                            {[q EXCEPT !.state = "answered", !.data = c]}
    /\ UNCHANGED <<room_bookings, user_roles, role, tzOffset, tab, formVars, adminVars,
                   adminFetch, myVars, myFetch, dialog, call>>

\* checkAvailability after its await: setConflictingBooking(conflict)
availabilityResume(q) ==
    /\ q \in fetches
    /\ q.state = "answered"
    /\ fetches' = fetches \ {q}
    /\ conflictingBooking' = q.data
    /\ call' = [fn |-> "checkAvailability", form |-> q.form]
    /\ UNCHANGED <<room_bookings, user_roles, role, tzOffset, tab, form, adminVars,
                   adminFetch, myVars, myFetch, dialog>>

\* the tables the dialog is opened on: empty, or one approved booking of one slot
FormTables ==
    {<< >>} \cup
    {<<row>> : row \in {r \in ValidRows : /\ r.status = "approved"
                                         /\ r.user_id # me
                                         /\ r.end_time = r.start_time + 1}}

\* the dialog has just been opened on the Bookings tab
InitForm ==
    /\ user_roles = [u1 |-> "staff", u2 |-> "leader"]
    /\ role = user_roles[me]
    /\ room_bookings \in FormTables
    /\ tzOffset \in TzOffsets
    /\ tab = "calendar"
    /\ form = EmptyForm
    /\ conflictingBooking = NoBooking
    /\ adminBookings = {}
    /\ selectedBooking = NoBooking
    /\ conflicts = {}
    /\ approvalDialogOpen = FALSE
    /\ adminFetch = FALSE
    /\ myBookings = {}
    /\ cancelingId = NoBooking
    /\ myFetch = FALSE
    /\ dialog = ClosedDialog
    /\ fetches = {}
    /\ call = NoCall

NextForm ==
    \/ \E r \in Rooms, s \in 0 .. MaxTime - 1 : setFields(r, s, s + 1)
    \/ debounceTimer
    \/ \E q \in fetches, fail \in BOOLEAN : availabilityAnswered(q, fail)
    \/ \E q \in fetches : availabilityResume(q)
    \/ handleSubmit

SpecForm == InitForm /\ [][NextForm]_vars

-----------------------------------------------------------------------------
(* MeetingRooms from its mount: role starts as 'staff' and loadRole looks it up *)

\* what the query of user_roles can come to: the user's row, no row, several
\* rows, or a request that fails
Lookups == {"row", "none", "many", "error"}

\* the rows of user_roles the query .eq('user_id', userId) selects
LookupRows(outcome) ==
    CASE outcome = "row" -> {user_roles[me]}
      [] outcome = "none" -> {}
      [] outcome = "many" -> {user_roles[me], "staff", "leader"}
      [] outcome = "error" -> {user_roles[me]}

\* no data
Null == "null"

\* .single(): the row when exactly one is selected, an error otherwise
Single(rows, fail) ==
    IF fail \/ Cardinality(rows) # 1
    THEN [data |-> Null, error |-> TRUE]
    ELSE [data |-> CHOOSE r \in rows : TRUE, error |-> FALSE]

\* Mutant: a lookup without a row answers 'leader'
getUserRole_noDefault(res) ==
    IF res.error \/ res.data = Null THEN "leader" ELSE res.data

\* getUserRole: if (error || !data) return 'staff'; return data.role
getUserRole(res) ==
    IF res.error \/ res.data = Null THEN "staff" ELSE res.data

\* loadRole, run once by the effect on mount: no user, no lookup
loadRole(signedIn, outcome) ==
    /\ call = NoCall
    /\ LET userRole == getUserRole(Single(LookupRows(outcome), outcome = "error"))
       IN  /\ role' = IF signedIn THEN userRole ELSE role
           /\ call' = [fn |-> "loadRole", signedIn |-> signedIn, outcome |-> outcome,
                       result |-> userRole]
    /\ UNCHANGED <<room_bookings, user_roles, tzOffset, tab, formVars, adminVars,
                   adminFetch, myVars, myFetch, dialog, fetches>>

\* MeetingRooms has just been mounted: useState<UserRole>('staff')
InitRole ==
    /\ user_roles \in RoleAssignments
    /\ role = "staff"
    /\ room_bookings = << >>
    /\ tzOffset \in TzOffsets
    /\ tab = "schedule"
    /\ form = EmptyForm
    /\ conflictingBooking = NoBooking
    /\ adminBookings = {}
    /\ selectedBooking = NoBooking
    /\ conflicts = {}
    /\ approvalDialogOpen = FALSE
    /\ adminFetch = FALSE
    /\ myBookings = {}
    /\ cancelingId = NoBooking
    /\ myFetch = FALSE
    /\ dialog = ClosedDialog
    /\ fetches = {}
    /\ call = NoCall

NextRole ==
    \/ \E signedIn \in BOOLEAN, outcome \in Lookups : loadRole(signedIn, outcome)
    \/ \E t \in Tabs : selectTab(t)

SpecRole == InitRole /\ [][NextRole]_vars

-----------------------------------------------------------------------------
(* Properties *)

\* spec 4.1: half-open intervals [a_start, a_end) and [b_start, b_end) overlap
IntervalsOverlap(a_start, a_end, b_start, b_end) ==
    a_start < b_end /\ b_start < a_end

StatusOf(i) == room_bookings[i].status
Terminal == {"approved", "rejected", "cancelled"}

\* C1: no two approved bookings of the same room have overlapping
\* [start_time, end_time) intervals, in every reachable state of the store.
C1_NoApprovedOverlap ==
    \A i, j \in RowIds(room_bookings) :
        ( /\ i # j
          /\ room_bookings[i].room_id = room_bookings[j].room_id
          /\ StatusOf(i) = "approved"
          /\ StatusOf(j) = "approved" )
        => ~IntervalsOverlap(room_bookings[i].start_time, room_bookings[i].end_time,
                             room_bookings[j].start_time, room_bookings[j].end_time)

\* C1 witness: two approved bookings of one room are stored side by side.
C1_Witness ==
    \E i, j \in RowIds(room_bookings) :
        /\ i # j
        /\ room_bookings[i].room_id = room_bookings[j].room_id
        /\ StatusOf(i) = "approved"
        /\ StatusOf(j) = "approved"

\* C3: a failed availability query never leaves the approval dialog showing
\* "no conflicts, safe to approve" with Approve enabled, nor the booking form
\* submittable as available.
C3_FailedCheckDistinguishable ==
    [][ /\ \A b \in Ids : handleApproveClick(b, TRUE) => ~ApproveEnabled'
        /\ checkAvailability(TRUE) => ~validateForm' ]_vars

\* C4: a cancel request on a booking that is not pending leaves the table as it is.
C4_CancelOnlyPending ==
    [][ handleCancel =>
            (StatusOf(cancelingId) # "pending" => room_bookings' = room_bookings) ]_vars

\* C5: approve, reject and cancel never change the status of a booking that is
\* approved, rejected or cancelled.
C5_TerminalStable ==
    [][ (handleApprove \/ (\E b \in Ids : handleReject(b)) \/ handleCancel) =>
            \A i \in RowIds(room_bookings) :
                StatusOf(i) \in Terminal => room_bookings'[i].status = StatusOf(i) ]_vars

Decided == {"approved", "rejected"}

\* no row becomes approved or rejected in the step
NoneBecomesDecided ==
    \A i \in RowIds(room_bookings') :
        room_bookings'[i].status \in Decided
            => (i \in RowIds(room_bookings) /\ StatusOf(i) = room_bookings'[i].status)

\* a request of user u changes the store: one sent by any client, or one of
\* the page's handlers when u is the signed-in user
RequestBy(u) ==
    \/ \E b \in Ids, st \in Statuses : storeUpdate(u, b, st)
    \/ \E r \in Rooms, v \in Users, s \in Times, e \in Times, st \in Statuses :
          storeInsert(u, Row(r, v, s, e, st))
    \/ u = me /\ ( \/ handleSubmit
                   \/ handleApprove
                   \/ \E b \in Ids : handleReject(b)
                   \/ handleCancel )

\* C6: no request of a caller who is neither leader nor admin makes a booking's
\* status approved or rejected.
C6_StaffCannotDecide ==
    [][ \A u \in Users :
            (~IsLeaderOrAdmin(u) /\ RequestBy(u)) => NoneBecomesDecided ]_vars

\* C6 witness: a pending booking that a staff caller's approve request is refused
\* for (by the policy's WITH CHECK, the caller being its requester), and that a
\* leader or admin may approve.
C6_Witness ==
    \E u, v \in Users, b \in RowIds(room_bookings) :
        /\ ~IsLeaderOrAdmin(u)
        /\ IsLeaderOrAdmin(v)
        /\ StatusOf(b) = "pending"
        /\ room_bookings[b].user_id = u
        /\ UpdateResult(u, b, "approved") = "42501"
        /\ UpdateResult(v, b, "approved") = "ok"

FormIs(r, s, e) == form = [roomId |-> r, start |-> s, end |-> e]

\* C8: with a pending booking on the form's room for exactly the form's interval,
\* and no approved booking overlapping it, the submitted booking is stored.
C8_SameIntervalAsPendingAccepted ==
    ( /\ tab = "calendar"
      /\ validateForm
      /\ Len(room_bookings) < MaxBookings
      /\ \E i \in RowIds(room_bookings) :
            /\ StatusOf(i) = "pending"
            /\ FormIs(room_bookings[i].room_id, room_bookings[i].start_time,
                      room_bookings[i].end_time)
      /\ \A j \in RowIds(room_bookings) :
            (StatusOf(j) = "approved" /\ room_bookings[j].room_id = form.roomId)
                => ~IntervalsOverlap(room_bookings[j].start_time,
                                     room_bookings[j].end_time, form.start, form.end) )
    => InsertResult(me, SubmittedRow) = "ok"

\* C9: for an approved booking on [s, e), the availability check reports a conflict
\* for every candidate on its room that overlaps it, and does not report the
\* booking for a candidate that starts at e or ends at s.
C9_AvailabilityHalfOpen ==
    \A i \in RowIds(room_bookings) : \A s, e \in Times :
        (StatusOf(i) = "approved" /\ s < e) =>
            LET r == room_bookings[i]
            IN  /\ IntervalsOverlap(r.start_time, r.end_time, s, e)
                      => AvailabilityRows(me, r.room_id, s, e) # {}
                /\ (s = r.end_time \/ e = r.start_time)
                      => i \notin AvailabilityRows(me, r.room_id, s, e)

\* C10: for a stored booking and any valid candidate interval on its room, the
\* client-side overlap test and the exclusion constraint's range test agree.
C10_SameVerdict ==
    \A i \in RowIds(room_bookings) : \A s, e \in Times :
        s < e =>
            ( ClientOverlap(room_bookings[i].start_time, room_bookings[i].end_time, s, e)
              <=> TsRangeOverlap(room_bookings[i].start_time,
                                 room_bookings[i].end_time, s, e) )

ListIds(list) == {list[k] : k \in 1 .. Len(list)}

\* C14: when the query succeeds, getConflictingBookings(room, start, end, excludeId),
\* called by a leader or admin, returns exactly the bookings of the room with status
\* approved or pending and another id that start before end and end after start,
\* each once.
C14_ConflictsExact ==
    (call.fn = "getConflictingBookings" /\ ~call.fail /\ IsLeaderOrAdmin(me))
        => /\ ListIds(call.result) =
                {i \in RowIds(room_bookings) :
                    /\ room_bookings[i].room_id = call.roomId
                    /\ StatusOf(i) \in {"approved", "pending"}
                    /\ i # call.excludeBookingId
                    /\ room_bookings[i].start_time < call.endTime
                    /\ room_bookings[i].end_time > call.startTime}
           /\ Len(call.result) = Cardinality(ListIds(call.result))

\* C15: the list getConflictingBookings returns is in ascending order of start_time.
C15_ConflictsOrdered ==
    call.fn = "getConflictingBookings"
        => \A j, k \in 1 .. Len(call.result) :
              j < k => room_bookings[call.result[j]].start_time
                          <= room_bookings[call.result[k]].start_time

\* C16: when the query succeeds, checkBookingAvailability(room, start, end) with
\* start < end returns null if and only if no approved booking of the room overlaps
\* [start, end), and what it returns is an approved booking.
C16_NullIffNoApprovedOverlap ==
    (call.fn = "checkBookingAvailability" /\ ~call.fail /\ call.startTime < call.endTime)
        => /\ (call.result = NoBooking) <=>
                ~\E i \in RowIds(room_bookings) :
                    /\ room_bookings[i].room_id = call.roomId
                    /\ StatusOf(i) = "approved"
                    /\ IntervalsOverlap(room_bookings[i].start_time,
                                        room_bookings[i].end_time,
                                        call.startTime, call.endTime)
           /\ call.result # NoBooking => StatusOf(call.result) = "approved"

\* C17: after a successful approve of a booking by the caller, the stored row has
\* status approved and the update has written the approver and the approval time.
C17_ApproveRecordsApprover ==
    [][ (handleApprove /\ UpdateResult(me, selectedBooking, "approved") = "ok")
            => /\ room_bookings'[selectedBooking].status = "approved"
               /\ {"approved_by", "approved_at"} \subseteq ApproveColumns ]_vars

PreconditionFails(d, now) ==
    \/ Trim(d.title) = ""
    \/ d.roomId = NoRoom
    \/ d.startDate = Unset \/ d.startTime = Unset
    \/ d.endDate = Unset \/ d.endTime = Unset
    \/ ~(LocalDateTime(d.startDate[1], d.startTime[1])
            < LocalDateTime(d.endDate[1], d.endTime[1]))
    \/ LocalDateTime(d.startDate[1], d.startTime[1]) < now
    \/ d.conflictingBooking # NoBooking

\* C19: when a creation precondition fails (title empty or blank, no room, a start
\* or end date or time missing, end not after start, start in the past, a known
\* approved conflict), handleSubmit sends no insert and sets a validation message.
C19_NoInsertWhenInvalid ==
    (call.fn = "handleSubmit" /\ PreconditionFails(call.dialog, call.now))
        => (~call.inserted /\ dialog.validationError # "")

\* C20: when the store refuses the insert with 23P01 handleSubmit shows 'Booking
\* Conflict', and for any other insert failure it shows the generic 'Error'; the
\* earlier version's test of the message gives the same verdict.
C20_ConflictToast ==
    (call.fn = "handleSubmit" /\ call.inserted /\ call.error # NullError)
        => /\ call.error.code = "23P01" => call.toast = "Booking Conflict"
           /\ call.error.code # "23P01" => call.toast = "Error"
           /\ IsConflictErrorByMessage(call.error) <=> call.error.code = "23P01"

\* C20 witness: the insert of a valid form was refused with 23P01 and the
\* conflict message was shown.
C20_Witness ==
    /\ call.fn = "handleSubmit"
    /\ call.inserted
    /\ call.error.code = "23P01"
    /\ call.toast = "Booking Conflict"
    /\ dialog.open

\* C21: every stored booking has start_time < end_time, and the store refuses every
\* insert and every update whose start_time is not before its end_time, whoever
\* sends it, and leaves the table as it is.
C21_ValidTimeRange ==
    /\ \A i \in RowIds(room_bookings) :
          room_bookings[i].start_time < room_bookings[i].end_time
    /\ \A u \in Users, row \in AllRows :
          row.start_time >= row.end_time => InsertResult(u, row) # "ok"
    /\ \A u \in Users, b \in Ids, s \in Times, e \in Times :
          s >= e => /\ UpdateTimesResult(u, b, s, e) # "ok"
                    /\ UpdatedTimesTable(u, b, s, e) = room_bookings

\* C21 witness: a booking is stored whose requester passes the row policies, and
\* the update of its times to an empty range is refused by the check constraint,
\* as is the insert of a pending row of the caller with such a range.
C21_Witness ==
    \E u \in Users, b \in RowIds(room_bookings), s \in Times, e \in Times :
        /\ s >= e
        /\ UpdateTimesResult(u, b, s, e) = "23514"
        /\ InsertResult(u, Row(room_bookings[b].room_id, u, s, e, "pending")) = "23514"

\* C22: when a signed-in user who is neither leader nor admin has the cancel
\* dialog open on an own booking that is still pending, the update handleCancel
\* sends is accepted by the store and leaves the booking's status cancelled.
C22_RequesterCancelsPending ==
    ( /\ ~IsLeaderOrAdmin(me)
      /\ cancelingId \in RowIds(room_bookings)
      /\ room_bookings[cancelingId].user_id = me
      /\ StatusOf(cancelingId) = "pending" )
    => /\ UpdateResult(me, cancelingId, "cancelled") = "ok"
       /\ UpdatedTable(me, cancelingId, "cancelled")[cancelingId].status = "cancelled"

\* the rows a caller without the leader or admin role may read: approved ones and
\* the caller's own
StaffReadable(u) ==
    {i \in RowIds(room_bookings) :
        StatusOf(i) = "approved" \/ room_bookings[i].user_id = u}

\* C23: a user who is neither leader nor admin reads a booking only if it is
\* approved or their own: the select policy admits no other row, no query of
\* booking-utils returns one, and the page's cached lists hold none.
C23_StaffReadsApprovedOrOwn ==
    /\ \A u \in Users : \A i \in RowIds(room_bookings) :
          (~IsLeaderOrAdmin(u) /\ SelectUsing(u, room_bookings[i]))
              => i \in StaffReadable(u)
    /\ ~IsLeaderOrAdmin(me) =>
          /\ \A r \in Rooms, s \in Times, e \in Times :
                /\ AvailabilityRows(me, r, s, e) \subseteq StaffReadable(me)
                /\ \A x \in {NoBooking} \cup Ids :
                      ConflictRows(me, r, s, e, x) \subseteq StaffReadable(me)
          /\ \A b \in myBookings : b[1] \in StaffReadable(me)
          /\ adminBookings \subseteq StaffReadable(me)

\* C23 witness: the signed-in user is staff and has loaded the list of own
\* bookings; the table holds another user's booking that is not approved, which
\* the policy hides, and another user's approved booking, which it shows.
C23_Witness ==
    /\ ~IsLeaderOrAdmin(me)
    /\ tab = "my-bookings"
    /\ ~myFetch
    /\ \E i, j \in RowIds(room_bookings) :
          /\ room_bookings[i].user_id # me
          /\ StatusOf(i) \in {"pending", "rejected", "cancelled"}
          /\ ~SelectUsing(me, room_bookings[i])
          /\ room_bookings[j].user_id # me
          /\ StatusOf(j) = "approved"
          /\ SelectUsing(me, room_bookings[j])

\* C24: in the approval view, the Reject of a listed booking that is pending is
\* available and accepted by the store whatever the conflict list shows, and it
\* leaves the booking's status rejected.
C24_RejectNotGated ==
    \A b \in adminBookings :
        (tab = "approvals" /\ StatusOf(b) = "pending")
            => /\ ENABLED handleReject(b)
               /\ UpdateResult(me, b, "rejected") = "ok"
               /\ UpdatedTable(me, b, "rejected")[b].status = "rejected"

\* C24 witness: the conflict check of a listed pending booking has reported
\* conflicts, and the store accepts the reject of that booking.
C24_Witness ==
    /\ tab = "approvals"
    /\ selectedBooking \in adminBookings
    /\ StatusOf(selectedBooking) = "pending"
    /\ conflicts # {}
    /\ UpdateResult(me, selectedBooking, "rejected") = "ok"

\* what the user entered in the dialog d
Entered(d) ==
    <<d.title, d.roomId, d.startDate, d.startTime, d.endDate, d.endTime>>

\* C25: when the insert of a form that passed validation returns an error (a
\* conflict or any other), the dialog stays open with the entered fields as they
\* were, onBookingCreated is not called, no success message is shown, loading is
\* false again and nothing is stored.
C25_RefusedInsertKeepsForm ==
    (call.fn = "handleSubmit" /\ call.inserted /\ call.error # NullError)
        => /\ dialog.open
           /\ Entered(dialog) = Entered(call.dialog)
           /\ ~call.created
           /\ call.toast # "Success"
           /\ ~dialog.loading
           /\ ENABLED (\E n \in DaySlots :
                         CreateBookingDialog_handleSubmit(LocalDateTime(Today, n), FALSE))

\* C25 witness: a filled-in form was submitted, the insert came back with an
\* error, and the dialog still shows what was entered.
C25_Witness ==
    /\ call.fn = "handleSubmit"
    /\ call.inserted
    /\ call.error # NullError
    /\ dialog.open
    /\ Trim(dialog.title) # ""
    /\ dialog.roomId # NoRoom
    /\ Entered(dialog) = Entered(call.dialog)

\* C26: every committed mutation makes the mounted view re-fetch its list, and
\* when no list query is in flight any more and the last one to come back
\* succeeded, the list the view shows is the store's current rows for the view's
\* filter (own bookings in MyBookings, pending bookings in AdminApprovalView).
C26_ListConverges ==
    (fetches = {} /\ call.fn = "fetch" /\ ~call.error) => Cache = ViewRows

\* C27: whenever the Approve button of the confirmation dialog is enabled, the
\* conflict list it is gated on is the one computed for the selected booking.
C27_ConflictsOfSelected ==
    ApproveEnabled =>
        (call.fn = "handleApproveClick" /\ call.booking = selectedBooking)

\* C28: whenever handleSubmit would issue the insert (the form passes
\* validateForm), the availability result it relies on was computed for the room
\* and interval the form holds.
C28_AvailabilityOfSubmitted ==
    (tab = "calendar" /\ validateForm)
        => (call.fn = "checkAvailability" /\ call.form = form)

\* C29: when the cancel dialog is confirmed, handleCancel reports 'Booking
\* cancelled successfully' only if the booking's status is cancelled in the store
\* afterwards; an update that matches no row is not reported as a success.
C29_CancelSuccessIsTrue ==
    ( /\ cancelingId \in RowIds(room_bookings)
      /\ CancelToast(UpdateResult(me, cancelingId, "cancelled"))
            = "Booking cancelled successfully" )
    => UpdatedTable(me, cancelingId, "cancelled")[cancelingId].status = "cancelled"

\* the lookup of the role gave the user's row
RoleKnown == call.fn = "loadRole" /\ call.signedIn /\ call.outcome = "row"

\* C30: getUserRole answers 'staff' whenever the lookup fails or selects no single
\* row, and as long as the role is not known from the user's row the page's role
\* is 'staff' and the Approvals tab is not shown.
C30_UnknownRoleIsStaff ==
    /\ (call.fn = "loadRole" /\ call.outcome # "row") => call.result = "staff"
    /\ ~RoleKnown => (role = "staff" /\ ~(role = "admin" \/ role = "leader")
                                     /\ tab # "approvals")

\* C30 witness: the signed-in user is leader or admin in user_roles, the lookup
\* failed, and the user has moved to another tab of the page as staff.
C30_Witness ==
    /\ call.fn = "loadRole"
    /\ call.signedIn
    /\ call.outcome = "error"
    /\ IsLeaderOrAdmin(me)
    /\ role = "staff"
    /\ tab = "my-bookings"

====
